---- MODULE Spec2Model ----
(***************************************************************************)
(* Short-straddle backtest engine: StraddleStrategy (strategy/              *)
(* straddle_strategy.py) and BacktestEngine.run_backtest (main.py).         *)
(*                                                                          *)
(* Conventions of the model                                                 *)
(*  - A timestamp is the integer date * 100 + minute-of-day (the model's    *)
(*    "YYYY-MM-DD HH:MM:SS"); every timestamp of a later date is larger.    *)
(*  - A DataFrame of bars is a sequence of records [datetime, close] in     *)
(*    strictly increasing datetime order (the connector sorts by datetime). *)
(*    A missing frame (None) and an empty frame are both << >>: every use   *)
(*    in the code tests "is None or .empty" together.                       *)
(*  - Prices and money are integers (ticks); the float expressions of the   *)
(*    code are evaluated exactly, a percentage comparison a/b*100 >= t      *)
(*    being decided by cross-multiplication.                                *)
(***************************************************************************)
EXTENDS Integers, Sequences, FiniteSets, TLC

VARIABLES
    config,              \* BacktestEngine.config / StraddleStrategy.config
    results,             \* BacktestEngine.results: the trade log
    minute_pnl_records,  \* BacktestEngine.minute_pnl_records: key -> pnl_df
    pc,                  \* run_backtest: "idle", "date", "attempt", "done"
    dates,               \* run_backtest argument: the list of dates
    expiry,              \* run_backtest argument
    date_idx,            \* index in dates of the date being simulated
    daily_pnl,           \* local of run_backtest
    current_time,        \* local of run_backtest
    current_underlying,  \* local of run_backtest
    reentry,             \* local of run_backtest
    underlying_df,       \* local of run_backtest: the frame fetched after a stop-loss
    day_log,             \* per date of the run: which exit of the loop ended it
    call_df,             \* StraddleStrategy.run argument (direct call)
    put_df,              \* StraddleStrategy.run argument (direct call)
    ce_feed,             \* the provider's bars of the call contract of a replayed day
    pe_feed,             \* the provider's bars of the put contract of a replayed day
    run_out,             \* what the direct call of StraddleStrategy.run returned
    strike_out,          \* what a direct call of calculate_atm_strike returned
    summary_out          \* what the last call of BacktestEngine.summary returned

vars == <<config, results, minute_pnl_records, pc, dates, expiry, date_idx,
          daily_pnl, current_time, current_underlying, reentry, underlying_df,
          day_log, call_df, put_df, ce_feed, pe_feed, run_out, strike_out, summary_out>>

engine_vars == <<results, minute_pnl_records, pc, dates, expiry, date_idx,
                 daily_pnl, current_time, current_underlying, reentry,
                 underlying_df, day_log>>

(***************************************************************************)
(* Bounds of the model.                                                     *)
(***************************************************************************)
MaxBars == 3        \* bars per leg in a direct call of StraddleStrategy.run
MaxEngineBars == 2  \* bars per leg returned to run_backtest by the provider
MaxReentries == 1   \* largest config.max_reentries
MaxDates == 2       \* number of distinct trading dates
MaxTrades == 2      \* capacity of the trade log: a run starts only if it fits
MaxPrice == 250     \* low underlying prices go from 1 to MaxPrice
MaxLogTrades == 3   \* trades in a log handed to summary directly
MaxFeedBars == 4    \* bars of a contract held by the provider for a replayed day

None == -1          \* Python None where a number is optional

(***************************************************************************)
(* Timestamps and frames.                                                   *)
(***************************************************************************)
Stamp(date, minute) == date * 100 + minute
DateOf(ts) == ts \div 100

\* df[pd.to_datetime(df["datetime"]) >= t]
FromTime(df, t) == SelectSeq(df, LAMBDA b : b.datetime >= t)

\* Faulty variant of InWindow: the upper bound is not applied.
InWindowNoUpperBound(df, lo, hi) == SelectSeq(df, LAMBDA b : b.datetime >= lo)

\* df[(df["datetime"] >= lo) & (df["datetime"] <= hi)]
InWindow(df, lo, hi) == SelectSeq(df, LAMBDA b : b.datetime >= lo /\ b.datetime <= hi)

\* Faulty variant of Merge: a left join, a call bar without its put bar kept
\* with a put close of 0.
MergeLeft(ce, pe) ==
    [i \in 1..Len(ce) |->
        LET m == SelectSeq(pe, LAMBDA q : q.datetime = ce[i].datetime)
        IN  [datetime |-> ce[i].datetime, close_ce |-> ce[i].close,
             close_pe |-> IF m = << >> THEN 0 ELSE m[1].close]]

\* pd.merge(ce[["datetime","close"]], pe[["datetime","close"]], on="datetime",
\* suffixes=("_ce","_pe")): inner join, in the order of the left keys.
Merge(ce, pe) ==
    LET F[i \in 0..Len(ce)] ==
            IF i = 0 THEN << >>
            ELSE LET m == SelectSeq(pe, LAMBDA q : q.datetime = ce[i].datetime)
                 IN  F[i - 1] \o [j \in 1..Len(m) |->
                                    [datetime |-> ce[i].datetime,
                                     close_ce |-> ce[i].close,
                                     close_pe |-> m[j].close]]
    IN  F[Len(ce)]

(***************************************************************************)
(* StraddleStrategy.calculate_atm_strike                                    *)
(***************************************************************************)
StrikeInterval(index) ==
    CASE index = "NIFTY" -> 50
      [] index = "BANKNIFTY" -> 100
      [] index = "FINNIFTY" -> 50
      [] index = "MIDCPNIFTY" -> 25
      [] OTHER -> 50

\* Faulty variant of calculate_atm_strike: an exact half rounds down.
calculate_atm_strike_half_down(cfg, underlying_price) ==
    LET steps == StrikeInterval(cfg.index)
        remainder == underlying_price % steps
    IN  IF 2 * remainder > steps
        THEN underlying_price - remainder + steps
        ELSE underlying_price - remainder

calculate_atm_strike(cfg, underlying_price) ==
    LET steps == StrikeInterval(cfg.index)
        remainder == underlying_price % steps
    IN  IF 2 * remainder >= steps
        THEN underlying_price - remainder + steps
        ELSE underlying_price - remainder

(***************************************************************************)
(* The exit test of one joined row (the body of the loop of                *)
(* get_minute_pnl).  PctGE(num, den, thr) is (num / den) * 100 >= thr for   *)
(* den # 0; a zero denominator is the ZeroDivisionError of the float        *)
(* division (the row's values are Python floats).                           *)
(***************************************************************************)
PctGE(num, den, thr) ==
    IF den > 0 THEN num * 100 >= thr * den ELSE num * 100 <= thr * den

\* Faulty variant of CombinedExit: the stop-loss boundary is excluded
\* (loss_pct > stop_loss_pct, written as not -loss_pct >= -stop_loss_pct).
CombinedExitStrict(cfg, ce_price, pe_price, ce_entry, pe_entry) ==
    LET total_entry == ce_entry + pe_entry
        total_premium == ce_price + pe_price
    IN  IF total_entry = 0 THEN "ZeroDivisionError"
        ELSE IF ~PctGE(total_entry - total_premium, total_entry, -cfg.stop_loss_pct)
             THEN "StopLoss"
        ELSE IF cfg.target_profit_pct # None
                /\ PctGE(total_entry - total_premium, total_entry, cfg.target_profit_pct)
             THEN "TakeProfit"
        ELSE "NoEvent"

CombinedExit(cfg, ce_price, pe_price, ce_entry, pe_entry) ==
    LET total_entry == ce_entry + pe_entry
        total_premium == ce_price + pe_price
    IN  IF total_entry = 0 THEN "ZeroDivisionError"
        ELSE IF PctGE(total_premium - total_entry, total_entry, cfg.stop_loss_pct)
             THEN "StopLoss"
        ELSE IF cfg.target_profit_pct # None
                /\ PctGE(total_entry - total_premium, total_entry, cfg.target_profit_pct)
             THEN "TakeProfit"
        ELSE "NoEvent"

\* Faulty variant of PerLegExit: the take-profit is tested without asking
\* whether a target is configured.
PerLegExitTargetUnchecked(cfg, ce_price, pe_price, ce_entry, pe_entry) ==
    IF ce_entry = 0 \/ pe_entry = 0 THEN "ZeroDivisionError"
    ELSE IF PctGE(ce_price - ce_entry, ce_entry, cfg.stop_loss_pct)
            \/ PctGE(pe_price - pe_entry, pe_entry, cfg.stop_loss_pct)
         THEN "StopLoss"
    ELSE IF PctGE(ce_entry - ce_price, ce_entry, cfg.target_profit_pct)
            \/ PctGE(pe_entry - pe_price, pe_entry, cfg.target_profit_pct)
         THEN "TakeProfit"
    ELSE "NoEvent"

\* Faulty variant of PerLegExit: the stop-loss needs both legs past the
\* threshold.
PerLegExitBothLegs(cfg, ce_price, pe_price, ce_entry, pe_entry) ==
    IF ce_entry = 0 \/ pe_entry = 0 THEN "ZeroDivisionError"
    ELSE IF PctGE(ce_price - ce_entry, ce_entry, cfg.stop_loss_pct)
            /\ PctGE(pe_price - pe_entry, pe_entry, cfg.stop_loss_pct)
         THEN "StopLoss"
    ELSE IF cfg.target_profit_pct # None
            /\ (PctGE(ce_entry - ce_price, ce_entry, cfg.target_profit_pct)
                \/ PctGE(pe_entry - pe_price, pe_entry, cfg.target_profit_pct))
         THEN "TakeProfit"
    ELSE "NoEvent"

\* Faulty variant of PerLegExit: the take-profit is tested before the
\* stop-loss.
PerLegExitTakeProfitFirst(cfg, ce_price, pe_price, ce_entry, pe_entry) ==
    IF ce_entry = 0 \/ pe_entry = 0 THEN "ZeroDivisionError"
    ELSE IF cfg.target_profit_pct # None
            /\ (PctGE(ce_entry - ce_price, ce_entry, cfg.target_profit_pct)
                \/ PctGE(pe_entry - pe_price, pe_entry, cfg.target_profit_pct))
         THEN "TakeProfit"
    ELSE IF PctGE(ce_price - ce_entry, ce_entry, cfg.stop_loss_pct)
            \/ PctGE(pe_price - pe_entry, pe_entry, cfg.stop_loss_pct)
         THEN "StopLoss"
    ELSE "NoEvent"

PerLegExit(cfg, ce_price, pe_price, ce_entry, pe_entry) ==
    IF ce_entry = 0 \/ pe_entry = 0 THEN "ZeroDivisionError"
    ELSE IF PctGE(ce_price - ce_entry, ce_entry, cfg.stop_loss_pct)
            \/ PctGE(pe_price - pe_entry, pe_entry, cfg.stop_loss_pct)
         THEN "StopLoss"
    ELSE IF cfg.target_profit_pct # None
            /\ (PctGE(ce_entry - ce_price, ce_entry, cfg.target_profit_pct)
                \/ PctGE(pe_entry - pe_price, pe_entry, cfg.target_profit_pct))
         THEN "TakeProfit"
    ELSE "NoEvent"

ExitCheck(cfg, ce_price, pe_price, ce_entry, pe_entry) ==
    IF ~cfg.per_leg
    THEN CombinedExit(cfg, ce_price, pe_price, ce_entry, pe_entry)
    ELSE PerLegExit(cfg, ce_price, pe_price, ce_entry, pe_entry)

(***************************************************************************)
(* StraddleStrategy.get_minute_pnl                                          *)
(***************************************************************************)
\* The joined frame with its MinutePnL and CumulativePnL columns.
JoinedFrame(cfg, call, put, ce_entry, pe_entry, entry_time, exit_time) ==
    LET df == Merge(InWindow(call, entry_time, exit_time),
                    InWindow(put, entry_time, exit_time))
    IN  [i \in 1..Len(df) |->
            [datetime |-> df[i].datetime,
             close_ce |-> df[i].close_ce,
             close_pe |-> df[i].close_pe,
             MinutePnL |-> (ce_entry + pe_entry) - (df[i].close_ce + df[i].close_pe),
             CumulativePnL |->
                 ((ce_entry + pe_entry) - (df[i].close_ce + df[i].close_pe)) * cfg.lot_size]]

\* Faulty variant of WalkRows: the loop does not break, the last row that
\* fires an event decides.
WalkRowsNoBreak(cfg, df, ce_entry, pe_entry) ==
    LET W[i \in 0..Len(df)] ==
            IF i = 0 THEN <<Len(df), "NoEvent">>
            ELSE LET ev == ExitCheck(cfg, df[i].close_ce, df[i].close_pe, ce_entry, pe_entry)
                 IN  IF ev # "NoEvent" THEN <<i, ev>> ELSE W[i - 1]
    IN  W[Len(df)]

\* for i, row in df.iterrows(): the index of the row the loop breaks on and
\* the event there; <<Len(df), "NoEvent">> when the loop runs to its end.
WalkRows(cfg, df, ce_entry, pe_entry) ==
    LET W[i \in 1..Len(df)] ==
            LET ev == ExitCheck(cfg, df[i].close_ce, df[i].close_pe, ce_entry, pe_entry)
            IN  IF ev # "NoEvent" THEN <<i, ev>>
                ELSE IF i = Len(df) THEN <<i, "NoEvent">>
                ELSE W[i + 1]
    IN  W[1]

get_minute_pnl(cfg, call, put, ce_entry, pe_entry, entry_time, exit_time) ==
    LET df == JoinedFrame(cfg, call, put, ce_entry, pe_entry, entry_time, exit_time)
    IN  IF df = << >>
        THEN [error |-> "ValueError: no overlapping minute bars", pnl_df |-> << >>,
              exited_flag |-> FALSE, exit_time |-> None, exit_reason |-> "None"]
        ELSE LET w == WalkRows(cfg, df, ce_entry, pe_entry)
             IN  IF w[2] = "ZeroDivisionError"
                 THEN [error |-> "ZeroDivisionError", pnl_df |-> << >>,
                       exited_flag |-> FALSE, exit_time |-> None, exit_reason |-> "None"]
                 ELSE IF w[2] = "NoEvent"
                 THEN [error |-> "", pnl_df |-> df, exited_flag |-> TRUE,
                       exit_time |-> df[Len(df)].datetime, exit_reason |-> "Exit"]
                 ELSE [error |-> "", pnl_df |-> SubSeq(df, 1, w[1]), exited_flag |-> TRUE,
                       exit_time |-> df[w[1]].datetime, exit_reason |-> w[2]]

(***************************************************************************)
(* StraddleStrategy.run                                                     *)
(***************************************************************************)
RunError(msg) ==
    [error |-> msg, net_pnl |-> 0, gross_pnl |-> 0, ce_entry |-> 0, pe_entry |-> 0,
     ce_exit |-> 0, pe_exit |-> 0, pnl_df |-> << >>, exited_flag |-> FALSE,
     exit_time |-> None, exit_reason |-> "None"]

\* Faulty variant of GrossPnl: the lot multiplier is left out.
GrossPnlNoMultiplier(cfg, ce_entry, pe_entry, ce_exit, pe_exit) ==
    ((ce_entry - ce_exit) + (pe_entry - pe_exit)) * cfg.lot_size

GrossPnl(cfg, ce_entry, pe_entry, ce_exit, pe_exit) ==
    ((ce_entry - ce_exit) + (pe_entry - pe_exit)) * (cfg.lot_size * cfg.lot_multiplier)

\* Faulty variant of NetPnl: the commission is subtracted before the scaling
\* by lot size and multiplier.
NetPnlCommissionBeforeScaling(cfg, ce_entry, pe_entry, ce_exit, pe_exit) ==
    LET slippage == cfg.slippage_points
        total_commission == 2 * cfg.commission_per_lot * cfg.lot_multiplier
    IN  (((ce_entry - slippage) - (ce_exit + slippage))
          + ((pe_entry - slippage) - (pe_exit + slippage)) - total_commission)
            * (cfg.lot_size * cfg.lot_multiplier)

NetPnl(cfg, ce_entry, pe_entry, ce_exit, pe_exit) ==
    LET slippage == cfg.slippage_points
        ce_entry_adj == ce_entry - slippage
        pe_entry_adj == pe_entry - slippage
        ce_exit_adj == ce_exit + slippage
        pe_exit_adj == pe_exit + slippage
        total_commission == 2 * cfg.commission_per_lot * cfg.lot_multiplier
    IN  ((ce_entry_adj - ce_exit_adj) + (pe_entry_adj - pe_exit_adj))
            * (cfg.lot_size * cfg.lot_multiplier) - total_commission

Run(cfg, underlying_price, call, put) ==
    IF call = << >> \/ put = << >>
    THEN RunError("ValueError: call or put data missing")
    ELSE
    LET entry_date == DateOf(call[1].datetime)
        entry_time == Stamp(entry_date, cfg.entry_time)
        exit_time == Stamp(entry_date, cfg.exit_time)
        ce_candidates == FromTime(call, entry_time)
        pe_candidates == FromTime(put, entry_time)
    IN  IF ce_candidates = << >> \/ pe_candidates = << >>
        THEN RunError("ValueError: no bars at or after entry time")
        ELSE
        LET ce_entry == ce_candidates[1].close
            pe_entry == pe_candidates[1].close
            g == get_minute_pnl(cfg, call, put, ce_entry, pe_entry, entry_time, exit_time)
        IN  IF g.error # "" THEN RunError(g.error)
            ELSE
            LET ce_exit == g.pnl_df[Len(g.pnl_df)].close_ce
                pe_exit == g.pnl_df[Len(g.pnl_df)].close_pe
            IN  [error |-> "",
                 net_pnl |-> NetPnl(cfg, ce_entry, pe_entry, ce_exit, pe_exit),
                 gross_pnl |-> GrossPnl(cfg, ce_entry, pe_entry, ce_exit, pe_exit),
                 ce_entry |-> ce_entry, pe_entry |-> pe_entry,
                 ce_exit |-> ce_exit, pe_exit |-> pe_exit,
                 pnl_df |-> g.pnl_df, exited_flag |-> g.exited_flag,
                 exit_time |-> g.exit_time, exit_reason |-> g.exit_reason]

(***************************************************************************)
(* Configurations (StraddleConfig, app_config.py).  entry_time and          *)
(* exit_time are minutes of the day; the trading window of the model is     *)
(* minutes 1..3.                                                            *)
(***************************************************************************)
BaseConfig ==
    [index |-> "NIFTY", entry_time |-> 1, exit_time |-> 3,
     lot_size |-> 75, lot_multiplier |-> 1,
     stop_loss_pct |-> 25, target_profit_pct |-> None, max_loss_per_day |-> 10000,
     per_leg |-> TRUE, max_reentries |-> 0, reentry_delay_minutes |-> 1,
     commission_per_lot |-> 20, slippage_points |-> 0]

\* The exit policies: per-leg or combined, take-profit configured or not.
PolicyConfigs ==
    { [BaseConfig EXCEPT !.per_leg = pl, !.target_profit_pct = tp] :
        pl \in BOOLEAN, tp \in {None, 20} }

\* The same with other lot sizes, multipliers and costs.
CostConfigs ==
    { [c EXCEPT !.lot_size = k[1], !.lot_multiplier = k[2],
                !.slippage_points = k[3], !.commission_per_lot = k[4]] :
        c \in PolicyConfigs, k \in {<<75, 1, 1, 20>>, <<1, 1, 0, 0>>, <<2, 3, 0, 20>>} }

(***************************************************************************)
(* Bar frames: strictly increasing in datetime, at most n bars.             *)
(***************************************************************************)
Frames(stamps, prices, n) ==
    LET Bars == [datetime : stamps, close : prices]
    IN  { s \in UNION { [1..k -> Bars] : k \in 0..n } :
            \A i \in 1..(Len(s) - 1) : s[i].datetime < s[i + 1].datetime }

\* Direct calls of StraddleStrategy.run: frames with few prices over the
\* minutes before, inside and after the window and on the next date ...
TimeFrames ==
    Frames({Stamp(1, m) : m \in 0..4} \cup {Stamp(2, 1)}, {4, 5}, MaxBars)

\* ... and frames with many prices over two minutes of the window.
PriceFrames ==
    Frames({Stamp(1, 1), Stamp(1, 2)}, {75, 100, 124, 125, 126}, MaxBars)

NoRunOut == RunError("not called")

\* summary has not been called.
NoSummary == [status |-> "not called"]

(***************************************************************************)
(* A direct call of StraddleStrategy.run on given frames.                   *)
(***************************************************************************)
InitEngine ==
    /\ results = << >>
    /\ minute_pnl_records = << >>
    /\ pc = "idle"
    /\ dates = << >>
    /\ expiry = 0
    /\ date_idx = 0
    /\ daily_pnl = 0
    /\ current_time = 0
    /\ current_underlying = 0
    /\ reentry = 0
    /\ underlying_df = << >>
    /\ day_log = << >>

InitRun ==
    /\ \/ /\ config \in PolicyConfigs
          /\ call_df \in TimeFrames
          /\ put_df \in TimeFrames
          /\ ce_feed = << >>
          /\ pe_feed = << >>
       \/ /\ config \in CostConfigs
          /\ call_df \in PriceFrames
          /\ put_df \in PriceFrames
          /\ ce_feed = << >>
          /\ pe_feed = << >>
    /\ run_out = NoRunOut
    /\ strike_out = None
    /\ summary_out = NoSummary
    /\ InitEngine

StrategyRun ==
    /\ run_out = NoRunOut
    /\ run_out' = Run(config, 24980, call_df, put_df)
    /\ UNCHANGED <<config, call_df, put_df, ce_feed, pe_feed, strike_out, summary_out, engine_vars>>

NextRun == StrategyRun

SpecRun == InitRun /\ [][NextRun]_vars

(***************************************************************************)
(* A direct call of StraddleStrategy.run on frames whose closes can be      *)
(* zero or negative: nothing between the provider and run rejects them.     *)
(***************************************************************************)
PremiumFrames == Frames({Stamp(1, 1), Stamp(1, 2)}, {-5, 0, 5}, MaxBars)

InitPremium ==
    /\ config \in PolicyConfigs
    /\ call_df \in PremiumFrames
    /\ put_df \in PremiumFrames
    /\ ce_feed = << >>
    /\ pe_feed = << >>
    /\ run_out = NoRunOut
    /\ strike_out = None
    /\ summary_out = NoSummary
    /\ InitEngine

NextPremium == StrategyRun

SpecPremium == InitPremium /\ [][NextPremium]_vars

(***************************************************************************)
(* A direct call of StraddleStrategy.calculate_atm_strike: every instrument *)
(* class of the table, one class outside it, low prices and the prices      *)
(* around 25000.                                                            *)
(***************************************************************************)
Indexes == {"NIFTY", "BANKNIFTY", "FINNIFTY", "MIDCPNIFTY", "SENSEX"}

StrikePrices == (1..MaxPrice) \cup (24940..25010)

InitStrike ==
    /\ config \in { [BaseConfig EXCEPT !.index = ix] : ix \in Indexes }
    /\ InitEngine
    /\ call_df = << >>
    /\ put_df = << >>
    /\ ce_feed = << >>
    /\ pe_feed = << >>
    /\ run_out = NoRunOut
    /\ strike_out = None
    /\ summary_out = NoSummary

SelectStrike ==
    /\ strike_out = None
    /\ \E underlying_price \in StrikePrices :
           /\ current_underlying' = underlying_price
           /\ strike_out' = calculate_atm_strike(config, underlying_price)
    /\ UNCHANGED <<config, results, minute_pnl_records, pc, dates, expiry, date_idx,
                   daily_pnl, current_time, reentry, underlying_df, day_log,
                   call_df, put_df, ce_feed, pe_feed, run_out, summary_out>>

NextStrike == SelectStrike

SpecStrike == InitStrike /\ [][NextStrike]_vars

(***************************************************************************)
(* BacktestEngine.summary (main.py 217-305) as a function of the trade log. *)
(* A quotient of the code is kept as numerator and denominator; the        *)
(* standard deviation (pandas Series.std, ddof = 1) is kept as its         *)
(* variance var_num / var_den with var_num = n * sum(x^2) - sum(x)^2 and   *)
(* var_den = n * (n - 1): for n = 1 the quotient is 0 / 0, which pandas    *)
(* returns as NaN.                                                         *)
(***************************************************************************)
\* series.sum(): the sum of a sequence of numbers.
SeqSum(s) ==
    LET F[i \in 0..Len(s)] == IF i = 0 THEN 0 ELSE F[i - 1] + s[i]
    IN  F[Len(s)]

\* series.cumsum()
CumSum(s) == [i \in 1..Len(s) |-> SeqSum(SubSeq(s, 1, i))]

\* series.max() of a non-empty sequence.
SeqMax(s) ==
    LET F[i \in 1..Len(s)] ==
            IF i = 1 THEN s[1] ELSE IF s[i] > F[i - 1] THEN s[i] ELSE F[i - 1]
    IN  F[Len(s)]

\* Faulty variant of CumMax: the maximum of the whole series on every day.
CumMaxWhole(s) == [i \in 1..Len(s) |-> SeqMax(s)]

\* series.cummax()
CumMax(s) == [i \in 1..Len(s) |-> SeqMax(SubSeq(s, 1, i))]

\* Faulty variant of GroupKeys: the dates in order of first appearance
\* (groupby(..., sort=False)).
GroupKeysUnsorted(log) ==
    LET F[i \in 0..Len(log)] ==
            IF i = 0 THEN << >>
            ELSE IF \E j \in 1..Len(F[i - 1]) : F[i - 1][j] = log[i].date
                 THEN F[i - 1]
                 ELSE Append(F[i - 1], log[i].date)
    IN  F[Len(log)]

\* df.groupby("date"): the distinct dates of the log in ascending order.
GroupKeys(log) ==
    LET ds == { log[i].date : i \in 1..Len(log) }
        F[n \in 0..Cardinality(ds)] ==
            IF n = 0 THEN << >>
            ELSE Append(F[n - 1],
                        CHOOSE d \in ds :
                            Cardinality({ e \in ds : e < d }) = n - 1)
    IN  F[Cardinality(ds)]

\* Lines 242-250: the daily frame, one row per group.
DailyFrame(log) ==
    LET keys == GroupKeys(log)
        group(d) == SelectSeq(log, LAMBDA t : t.date = d)
        net(d) == SeqSum([k \in 1..Len(group(d)) |-> group(d)[k].net_pnl])
        nets == [i \in 1..Len(keys) |-> net(keys[i])]
        cum == CumSum(nets)
    IN  [i \in 1..Len(keys) |->
            [date |-> keys[i],
             net_PnL |-> nets[i],
             num_trades |-> Len(group(keys[i])),
             CumulativePnL |-> cum[i],
             winning_trades |->
                 Len(SelectSeq(group(keys[i]), LAMBDA t : t.net_pnl > 0)),
             losing_trades |->
                 Len(SelectSeq(group(keys[i]), LAMBDA t : t.net_pnl < 0))]]

\* Line 260: avg_pnl / std if std != 0 else 0.  NaN != 0 is true in Python,
\* so a NaN deviation takes the division and gives NaN.
SharpeRatio(total, n, var_num, var_den) ==
    IF var_den = 0
    THEN [kind |-> "nan", mean_num |-> total, mean_den |-> n,
          var_num |-> var_num, var_den |-> var_den]
    ELSE IF var_num # 0
    THEN [kind |-> "ratio", mean_num |-> total, mean_den |-> n,
          var_num |-> var_num, var_den |-> var_den]
    ELSE [kind |-> "zero", mean_num |-> 0, mean_den |-> 1,
          var_num |-> 0, var_den |-> 1]

\* Lines 229-305.
summary(log) ==
    IF log = << >>
    THEN [status |-> "empty"]
    ELSE
    LET daily == DailyFrame(log)
        n == Len(daily)
        nets == [i \in 1..n |-> daily[i].net_PnL]
        cums == [i \in 1..n |-> daily[i].CumulativePnL]
        total_pnl == SeqSum(nets)
        cummax == CumMax(cums)
    IN  [status |-> "ok",
         daily |-> daily,
         total_pnl |-> total_pnl,
         avg_daily_pnl |-> <<total_pnl, n>>,
         win_rate |-> <<100 * Len(SelectSeq(nets, LAMBDA x : x > 0)), n>>,
         sharpe_ratio |->
             SharpeRatio(total_pnl, n,
                         n * SeqSum([i \in 1..n |-> nets[i] * nets[i]])
                             - total_pnl * total_pnl,
                         n * (n - 1)),
         max_drawdown |-> SeqMax([i \in 1..n |-> cummax[i] - cums[i]]),
         total_trades |-> Len(log),
         winning_trades |-> Len(SelectSeq(log, LAMBDA t : t.net_pnl > 0)),
         losing_trades |-> Len(SelectSeq(log, LAMBDA t : t.net_pnl < 0))]

\* Faulty variant of Summary: the times are formatted as times of day in the
\* log itself instead of in the frame built from it.
SummaryFormatsLog ==
    /\ pc = "idle"
    /\ summary_out' = summary(results)
    /\ results' = [k \in 1..Len(results) |->
                      [results[k] EXCEPT !.EntryTime = @ % 100, !.ExitTime = @ % 100]]
    /\ UNCHANGED <<config, minute_pnl_records, pc, dates, expiry, date_idx,
                   daily_pnl, current_time, current_underlying, reentry,
                   underlying_df, day_log, call_df, put_df, ce_feed, pe_feed, run_out, strike_out>>

\* A call of summary, between calls of run_backtest; the log is read, never
\* written.
Summary ==
    /\ pc = "idle"
    /\ summary_out' = summary(results)
    /\ UNCHANGED <<config, results, minute_pnl_records, pc, dates, expiry, date_idx,
                   daily_pnl, current_time, current_underlying, reentry,
                   underlying_df, day_log, call_df, put_df, ce_feed, pe_feed, run_out, strike_out>>

(***************************************************************************)
(* A direct call of summary on a trade log: up to MaxLogTrades trades over  *)
(* three dates, in any order (run_backtest is called once per date of a     *)
(* schedule, in the schedule's order).                                      *)
(***************************************************************************)
LogTrade(date, net) ==
    [date |-> date, reentry |-> 0, underlying_price |-> 24980, strike |-> 25000,
     ce_entry |-> 100, pe_entry |-> 100, ce_exit |-> 100, pe_exit |-> 100,
     gross_pnl |-> net, net_pnl |-> net, ExitReason |-> "Exit",
     EntryTime |-> Stamp(date, 1), ExitTime |-> Stamp(date, 3), expiry |-> 7]

TradeLogs ==
    UNION { [1..k -> { LogTrade(d, x) : d \in 1..3, x \in {-50, 0, 100, 200} }] :
              k \in 0..MaxLogTrades }

InitSummary ==
    /\ config = BaseConfig
    /\ results \in TradeLogs
    /\ minute_pnl_records = << >>
    /\ pc = "idle"
    /\ dates = << >>
    /\ expiry = 0
    /\ date_idx = 0
    /\ daily_pnl = 0
    /\ current_time = 0
    /\ current_underlying = 0
    /\ reentry = 0
    /\ underlying_df = << >>
    /\ day_log = << >>
    /\ call_df = << >>
    /\ put_df = << >>
    /\ ce_feed = << >>
    /\ pe_feed = << >>
    /\ run_out = NoRunOut
    /\ strike_out = None
    /\ summary_out = NoSummary

NextSummary == Summary

SpecSummary == InitSummary /\ [][NextSummary]_vars

(***************************************************************************)
(* The data provider as run_backtest sees it.                               *)
(***************************************************************************)
Dates == 1..MaxDates
Expiries == {7}
ThinExpiries == {14}
ReplayExpiries == {21}

\* What get_options_data may return for a date, an expiry and a right: bars
\* of that date and of the next one (end_date is start_date + 1, and the
\* connector asks for the bars up to 15:30 of end_date).  The contracts of
\* expiry 14 are quoted on minutes 1 and 2 of the date only; for the contracts
\* of expiry 21 the provider returns the bars it holds, ce_feed and pe_feed,
\* the same at every call.
EngineFrames(date, exp, right) ==
    IF exp \in Expiries
    THEN Frames({Stamp(date, m) : m \in 1..3} \cup {Stamp(date + 1, 1)},
                {4, 5}, MaxEngineBars)
    ELSE IF exp \in ThinExpiries
    THEN Frames({Stamp(date, 1), Stamp(date, 2)}, {4, 5}, MaxEngineBars)
    ELSE { SelectSeq(IF right = "call" THEN ce_feed ELSE pe_feed,
                     LAMBDA b : DateOf(b.datetime) \in {date, date + 1}) }

\* What get_historical_equity_data may return for a date: nothing, or one bar
\* or two bars of the underlying's path (24980 up to the entry minute, 24960
\* at minute 2, 24920 at minute 3); minute 0 is before the entry time and
\* minute 3 is the last of the window.
UnderlyingBar(date, m) ==
    [datetime |-> Stamp(date, m),
     close |-> IF m <= 1 THEN 24980 ELSE IF m = 2 THEN 24960 ELSE 24920]

UnderlyingFrames(date) ==
    {<< >>} \cup { <<UnderlyingBar(date, m)>> : m \in {0, 3} }
            \cup { <<UnderlyingBar(date, m), UnderlyingBar(date, 3)>> : m \in {0, 2} }

\* The same when the date starts: the bars up to the entry minute.
EntryUnderlyingFrames(date) ==
    {<< >>} \cup { <<UnderlyingBar(date, m)>> : m \in 0..1 }

\* DataLoader.get_underlying_price on the frame the connector returned.
get_underlying_price(data, start_date, entry_time_str) ==
    IF data = << >> THEN None
    ELSE LET row == FromTime(data, Stamp(start_date, entry_time_str))
         IN  IF row = << >> THEN None ELSE row[1].close

(***************************************************************************)
(* BacktestEngine.run_backtest                                              *)
(***************************************************************************)
\* Without re-entries the daily cap matters only when it is 0 and the delay
\* never; with re-entries the cap is the loss of one stopped trade or a large
\* one, and the next entry is at the exit minute or one minute later.
EngineConfigs ==
    { [c EXCEPT !.max_loss_per_day = ml] : c \in PolicyConfigs, ml \in {0, 10000} }
    \cup
    { [c EXCEPT !.max_reentries = mr, !.max_loss_per_day = ml,
                !.reentry_delay_minutes = dl] :
        c \in PolicyConfigs, mr \in 1..MaxReentries, ml \in {115, 10000}, dl \in {0, 1} }

\* The lists of dates of a run: the first n dates.
DateLists == { [i \in 1..n |-> i] : n \in 1..MaxDates }

Trade(date, exp, re, underlying, strike, entry_ts, r) ==
    [date |-> date, reentry |-> re, underlying_price |-> underlying,
     strike |-> strike, ce_entry |-> r.ce_entry, pe_entry |-> r.pe_entry,
     ce_exit |-> r.ce_exit, pe_exit |-> r.pe_exit, gross_pnl |-> r.gross_pnl,
     net_pnl |-> r.net_pnl, ExitReason |-> r.exit_reason, EntryTime |-> entry_ts,
     ExitTime |-> r.exit_time, expiry |-> exp]

\* self.minute_pnl_records[f"{date}_reentry_{reentry}"] = pnl_df
\* Faulty variant of RecordTrade: the log is keyed like minute_pnl_records, a
\* trade of the same date and re-entry index replaces the earlier one.
RecordTradeKeyed(log, trade) ==
    IF \E k \in 1..Len(log) : log[k].date = trade.date /\ log[k].reentry = trade.reentry
    THEN [k \in 1..Len(log) |->
             IF log[k].date = trade.date /\ log[k].reentry = trade.reentry
             THEN trade ELSE log[k]]
    ELSE Append(log, trade)

\* Faulty variant of RecordTrade: the newest trade first.
RecordTradeFront(log, trade) == <<trade>> \o log

\* Line 111: self.results.append(trade)
RecordTrade(log, trade) == Append(log, trade)

PutRecord(records, key, df) ==
    [k \in DOMAIN records \cup {key} |-> IF k = key THEN df ELSE records[k]]

\* get_intraday_pnl(date, reentry): the series recorded under the key, no
\* frame (None) when there is none.
get_intraday_pnl(records, date, re) ==
    IF <<date, re>> \in DOMAIN records THEN records[<<date, re>>] ELSE << >>

\* Faulty variant of EndDate: a missing underlying after a stop-loss ends the
\* run (return instead of break).
EndDateAbortOnGap(cause) ==
    /\ day_log' = [day_log EXCEPT ![date_idx] = cause]
    /\ IF date_idx < Len(dates)
          /\ cause \notin {"NoUnderlyingAfterSL", "NoUnderlyingRowAfterSL"}
       THEN pc' = "date" /\ date_idx' = date_idx + 1
       ELSE pc' = "done" /\ date_idx' = date_idx
    /\ UNCHANGED <<dates, expiry>>

\* Faulty variant of EndDate: a date whose first attempt raised is simulated
\* again.
EndDateRetryOnError(cause) ==
    /\ day_log' = [day_log EXCEPT ![date_idx] = cause]
    /\ IF cause = "Error" /\ reentry = 0
       THEN pc' = "date" /\ date_idx' = date_idx
       ELSE IF date_idx < Len(dates)
       THEN pc' = "date" /\ date_idx' = date_idx + 1
       ELSE pc' = "done" /\ date_idx' = date_idx
    /\ UNCHANGED <<dates, expiry>>

\* Faulty variant of EndDate: an error raised by the simulation ends the run
\* (the try statement around the for loop instead of inside it).
EndDateAbortOnError(cause) ==
    /\ day_log' = [day_log EXCEPT ![date_idx] = cause]
    /\ IF date_idx < Len(dates) /\ cause # "Error"
       THEN pc' = "date" /\ date_idx' = date_idx + 1
       ELSE pc' = "done" /\ date_idx' = date_idx
    /\ UNCHANGED <<dates, expiry>>

\* The run leaves the loop body of the current date (break, continue, the
\* except clause or the end of the while loop) and goes on to the next date.
EndDate(cause) ==
    /\ day_log' = [day_log EXCEPT ![date_idx] = cause]
    /\ IF date_idx < Len(dates)
       THEN pc' = "date" /\ date_idx' = date_idx + 1
       ELSE pc' = "done" /\ date_idx' = date_idx
    /\ UNCHANGED <<dates, expiry>>

\* The date lists short enough for the trades of the log to number at most
\* MaxTrades after the run.
Schedules ==
    { ds \in DateLists :
        Len(results) + Len(ds) * (config.max_reentries + 1) <= MaxTrades }

\* Faulty variant of RunBacktest: the call normalises the configuration it
\* was given (a re-entry delay of at least one minute).
RunBacktestClampDelay(ds, exp) ==
    /\ pc = "idle"
    /\ config' = [config EXCEPT !.reentry_delay_minutes = 1]
    /\ dates' = ds
    /\ expiry' = exp
    /\ date_idx' = 1
    /\ pc' = "date"
    /\ day_log' = [i \in 1..Len(ds) |-> "running"]
    /\ UNCHANGED <<results, minute_pnl_records, daily_pnl, current_time,
                   current_underlying, reentry, underlying_df, call_df, put_df, ce_feed, pe_feed,
                   run_out, strike_out, summary_out>>

\* The call of run_backtest(symbol, expiry, dates).
RunBacktest(ds, exp) ==
    /\ pc = "idle"
    /\ dates' = ds
    /\ expiry' = exp
    /\ date_idx' = 1
    /\ pc' = "date"
    /\ day_log' = [i \in 1..Len(ds) |-> "running"]
    /\ UNCHANGED <<config, results, minute_pnl_records, daily_pnl, current_time,
                   current_underlying, reentry, underlying_df, call_df, put_df, ce_feed, pe_feed,
                   run_out, strike_out, summary_out>>

\* Faulty variant of DateStart: daily_pnl is not reset (initialised before the
\* for loop instead of inside it).
DateStartKeepLedger ==
    /\ pc = "date"
    /\ daily_pnl' = daily_pnl
    /\ \E data \in EntryUnderlyingFrames(dates[date_idx]) :
          LET underlying_price ==
                  get_underlying_price(data, dates[date_idx], config.entry_time)
          IN  IF underlying_price = None
              THEN /\ EndDate("NoUnderlying")
                   /\ UNCHANGED <<current_time, current_underlying, reentry>>
              ELSE /\ current_time' = Stamp(dates[date_idx], config.entry_time)
                   /\ current_underlying' = underlying_price
                   /\ reentry' = 0
                   /\ pc' = "attempt"
                   /\ UNCHANGED <<dates, expiry, date_idx, day_log>>
    /\ UNCHANGED <<config, results, minute_pnl_records, underlying_df, call_df,
                   put_df, ce_feed, pe_feed, run_out, strike_out, summary_out>>

\* Lines 45-58: the head of the for loop, up to the while loop.
DateStart ==
    /\ pc = "date"
    /\ daily_pnl' = 0
    /\ \E data \in EntryUnderlyingFrames(dates[date_idx]) :
          LET underlying_price ==
                  get_underlying_price(data, dates[date_idx], config.entry_time)
          IN  IF underlying_price = None
              THEN /\ EndDate("NoUnderlying")
                   /\ UNCHANGED <<current_time, current_underlying, reentry>>
              ELSE /\ current_time' = Stamp(dates[date_idx], config.entry_time)
                   /\ current_underlying' = underlying_price
                   /\ reentry' = 0
                   /\ pc' = "attempt"
                   /\ UNCHANGED <<dates, expiry, date_idx, day_log>>
    /\ UNCHANGED <<config, results, minute_pnl_records, underlying_df, call_df,
                   put_df, ce_feed, pe_feed, run_out, strike_out, summary_out>>

\* Faulty variant of LossCapReached: a loss equal to the cap does not stop.
LossCapReachedStrict(cfg, pnl) == pnl < -cfg.max_loss_per_day

\* Faulty variant of ReentryDecision: one re-entry too many.
ReentryDecisionOffByOne(cfg, exit_reason, re, exit_time) ==
    IF exit_reason = "TakeProfit" \/ exit_reason = "Exit" THEN "NormalExit"
    ELSE IF exit_reason = "StopLoss" /\ re <= cfg.max_reentries /\ exit_time # None
    THEN "Reenter"
    ELSE "ReentryLimit"

\* Faulty variant of ReentryDecision: a re-entry after any exit.
ReentryDecisionAnyExit(cfg, exit_reason, re, exit_time) ==
    IF re < cfg.max_reentries /\ exit_time # None THEN "Reenter"
    ELSE IF exit_reason = "StopLoss" THEN "ReentryLimit"
    ELSE "NormalExit"

\* Faulty variant of LossCapReached: a day without a profit counts as capped.
LossCapReachedNoGain(cfg, pnl) == pnl <= 0

\* Line 63: the daily loss cap, tested before each attempt.
LossCapReached(cfg, pnl) == pnl <= -cfg.max_loss_per_day

\* Lines 118-143: what the loop does after a recorded trade.
ReentryDecision(cfg, exit_reason, re, exit_time) ==
    IF exit_reason = "TakeProfit" \/ exit_reason = "Exit" THEN "NormalExit"
    ELSE IF exit_reason = "StopLoss" /\ re < cfg.max_reentries /\ exit_time # None
    THEN "Reenter"
    ELSE "ReentryLimit"

\* Faulty variant of ReentryUnderlying: the last bar of the day instead of the
\* first one at or after the exit.
ReentryUnderlyingLastBar(data, exit_time) ==
    LET row == FromTime(data, exit_time)
    IN  IF row = << >> THEN None ELSE row[Len(row)].close

\* Lines 132-138: the close of the first bar of the fetched frame at or after
\* the exit, None when there is no such bar.
ReentryUnderlying(data, exit_time) ==
    LET row == FromTime(data, exit_time)
    IN  IF row = << >> THEN None ELSE row[1].close

\* Lines 117-143: what follows a recorded trade r.
AfterTrade(r) ==
    IF ReentryDecision(config, r.exit_reason, reentry, r.exit_time) = "NormalExit"
    THEN /\ EndDate("NormalExit")
         /\ UNCHANGED <<current_time, current_underlying, reentry, underlying_df>>
    ELSE IF ReentryDecision(config, r.exit_reason, reentry, r.exit_time) = "Reenter"
    THEN \E data \in UnderlyingFrames(dates[date_idx]) :
            /\ underlying_df' = data
            /\ IF data = << >>
               THEN /\ EndDate("NoUnderlyingAfterSL")
                    /\ UNCHANGED <<current_time, current_underlying, reentry>>
               ELSE IF ReentryUnderlying(data, r.exit_time) = None
               THEN /\ EndDate("NoUnderlyingRowAfterSL")
                    /\ UNCHANGED <<current_time, current_underlying, reentry>>
               ELSE /\ current_underlying' = ReentryUnderlying(data, r.exit_time)
                    /\ current_time' = r.exit_time + config.reentry_delay_minutes
                    /\ reentry' = reentry + 1
                    /\ UNCHANGED <<pc, dates, expiry, date_idx, day_log>>
    ELSE /\ EndDate("ReentryLimit")
         /\ UNCHANGED <<current_time, current_underlying, reentry, underlying_df>>

\* Lines 61-146: one iteration of the while loop.
Attempt ==
    /\ pc = "attempt"
    /\ LET date == dates[date_idx] IN
       IF ~(reentry <= config.max_reentries)
       THEN /\ EndDate("LoopEnd")
            /\ UNCHANGED <<results, minute_pnl_records, daily_pnl, current_time,
                           current_underlying, reentry, underlying_df>>
       ELSE IF LossCapReached(config, daily_pnl)
       THEN /\ EndDate("MaxLoss")
            /\ UNCHANGED <<results, minute_pnl_records, daily_pnl, current_time,
                           current_underlying, reentry, underlying_df>>
       ELSE
       \E ce_raw \in EngineFrames(date, expiry, "call"),
          pe_raw \in EngineFrames(date, expiry, "put") :
         LET atm_strike == calculate_atm_strike(config, current_underlying)
             ce_df == FromTime(ce_raw, current_time)
             pe_df == FromTime(pe_raw, current_time)
             r == Run(config, current_underlying, ce_df, pe_df)
         IN  IF ce_raw = << >> \/ pe_raw = << >>
             THEN /\ EndDate("MissingData")
                  /\ UNCHANGED <<results, minute_pnl_records, daily_pnl, current_time,
                                 current_underlying, reentry, underlying_df>>
             ELSE IF ce_df = << >> \/ pe_df = << >>
             THEN /\ EndDate("NoBarsPostEntry")
                  /\ UNCHANGED <<results, minute_pnl_records, daily_pnl, current_time,
                                 current_underlying, reentry, underlying_df>>
             ELSE IF r.error # ""
             THEN /\ EndDate("Error")
                  /\ UNCHANGED <<results, minute_pnl_records, daily_pnl, current_time,
                                 current_underlying, reentry, underlying_df>>
             ELSE /\ results' = RecordTrade(results,
                                   Trade(date, expiry, reentry, current_underlying,
                                         atm_strike, current_time, r))
                  /\ minute_pnl_records' =
                         PutRecord(minute_pnl_records, <<date, reentry>>, r.pnl_df)
                  /\ daily_pnl' = daily_pnl + r.net_pnl
                  /\ AfterTrade(r)
    /\ UNCHANGED <<config, call_df, put_df, ce_feed, pe_feed, run_out, strike_out, summary_out>>

Init ==
    /\ config \in EngineConfigs
    /\ InitEngine
    /\ call_df = << >>
    /\ put_df = << >>
    /\ ce_feed = << >>
    /\ pe_feed = << >>
    /\ run_out = NoRunOut
    /\ strike_out = None
    /\ summary_out = NoSummary

Next ==
    \/ \E ds \in Schedules, exp \in Expiries : RunBacktest(ds, exp)
    \/ DateStart
    \/ Attempt

Spec == Init /\ [][Next]_vars

(***************************************************************************)
(* One call of run_backtest with a re-entry allowed on every date of the    *)
(* list: per-leg stop-loss, no take-profit, the daily cap at the loss of    *)
(* a trade stopped on one leg (a trade stopped with the other leg in profit *)
(* loses less), the re-entry at the exit minute.  The run is against the    *)
(* thinly quoted expiry, which keeps the number of different trades small.  *)
(***************************************************************************)
ReentryConfigs ==
    { [BaseConfig EXCEPT !.max_reentries = MaxReentries, !.max_loss_per_day = 115,
                         !.reentry_delay_minutes = 0] }

InitReentry ==
    /\ config \in ReentryConfigs
    /\ InitEngine
    /\ call_df = << >>
    /\ put_df = << >>
    /\ ce_feed = << >>
    /\ pe_feed = << >>
    /\ run_out = NoRunOut
    /\ strike_out = None
    /\ summary_out = NoSummary

NextReentry ==
    \/ \E ds \in DateLists, exp \in ThinExpiries : RunBacktest(ds, exp)
    \/ DateStart
    \/ Attempt

SpecReentry == InitReentry /\ [][NextReentry]_vars

\* The same with the loop making progress: once run_backtest is called its
\* single thread executes the next step of the loop; the call itself is up
\* to the caller.
SpecReentryFair == SpecReentry /\ WF_vars(DateStart) /\ WF_vars(Attempt)

(***************************************************************************)
(* One call of run_backtest on a replayed day: the provider holds up to     *)
(* MaxFeedBars bars of each contract, on minutes 1 and 2 of the date and on *)
(* minutes 0 and 1 of the next date (minute 0 is before the entry time),    *)
(* and returns them at every call.  One re-entry is allowed, at the exit    *)
(* minute or one minute later; the daily loss cap is 0 or large.            *)
(***************************************************************************)
FeedFrames ==
    Frames({Stamp(1, 1), Stamp(1, 2), Stamp(2, 0), Stamp(2, 1)}, {4, 5}, MaxFeedBars)

ReplayConfigs ==
    { [BaseConfig EXCEPT !.max_reentries = MaxReentries, !.max_loss_per_day = ml,
                         !.reentry_delay_minutes = dl] :
        ml \in {0, 10000}, dl \in {0, 1} }

InitReplay ==
    /\ config \in ReplayConfigs
    /\ InitEngine
    /\ call_df = << >>
    /\ put_df = << >>
    /\ ce_feed \in FeedFrames
    /\ pe_feed \in FeedFrames
    /\ run_out = NoRunOut
    /\ strike_out = None
    /\ summary_out = NoSummary

NextReplay ==
    \/ \E ds \in Schedules, exp \in ReplayExpiries : RunBacktest(ds, exp)
    \/ DateStart
    \/ Attempt

SpecReplay == InitReplay /\ [][NextReplay]_vars

(***************************************************************************)
(* Properties of run_backtest, checked under Spec.                         *)
(***************************************************************************)

\* The trades recorded for a date, in the order they were appended.
TradesOf(d) == SelectSeq(results, LAMBDA t : t.date = d)

\* The net P&L of the first n trades of T.
RECURSIVE SumNet(_, _)
SumNet(T, n) == IF n = 0 THEN 0 ELSE SumNet(T, n - 1) + T[n].net_pnl

\* The ways a date ends because data is unavailable or the simulation raised.
DataFailures ==
    {"NoUnderlying", "MissingData", "NoBarsPostEntry", "Error",
     "NoUnderlyingAfterSL", "NoUnderlyingRowAfterSL"}

\* C1: a date records at most max_reentries + 1 trades; a date that ended
\* with every attempt a StopLoss, no data failure and the loss cap never
\* reached records exactly max_reentries + 1 trades, with re-entry indices
\* 0..max_reentries, and ends because the re-entry limit is reached.
C1_ReentryBound ==
    \A i \in 1..Len(day_log) :
        LET T == TradesOf(dates[i])
        IN  /\ Len(T) <= config.max_reentries + 1
            /\ (/\ day_log[i] \notin ({"running", "MaxLoss"} \cup DataFailures)
                /\ \A k \in 1..Len(T) : T[k].ExitReason = "StopLoss")
               => /\ Len(T) = config.max_reentries + 1
                  /\ \A k \in 1..Len(T) : T[k].reentry = k - 1
                  /\ day_log[i] = "ReentryLimit"

\* A date with one re-entry allowed ended at the re-entry limit after two
\* StopLoss trades.
C1_Witness ==
    \E i \in 1..Len(day_log) :
        /\ config.max_reentries = 1
        /\ day_log[i] = "ReentryLimit"
        /\ Len(TradesOf(dates[i])) = 2
        /\ \A k \in 1..2 : TradesOf(dates[i])[k].ExitReason = "StopLoss"

\* C2: every recorded trade of a date was attempted with the date's net P&L
\* accumulated before it strictly greater than -max_loss_per_day, so no trade
\* follows an accumulated net P&L <= -max_loss_per_day.
C2_DailyLossCap ==
    \A d \in Dates :
        LET T == TradesOf(d)
        IN  \A k \in 1..Len(T) : SumNet(T, k - 1) > -config.max_loss_per_day

\* A date stopped on the loss cap, exactly at the boundary, after a first
\* trade and with a re-entry still allowed.
C2_Witness ==
    \E i \in 1..Len(day_log) :
        LET T == TradesOf(dates[i])
        IN  /\ day_log[i] = "MaxLoss"
            /\ Len(T) = 1
            /\ Len(T) <= config.max_reentries
            /\ T[1].ExitReason = "StopLoss"
            /\ SumNet(T, 1) = -config.max_loss_per_day

\* C3: a trade that exits with TakeProfit or Exit is the last trade of its
\* date (every trade of a date but the last is a StopLoss), and the date then
\* ends as a normal exit.
C3_NormalExitTerminal ==
    /\ \A d \in Dates :
           LET T == TradesOf(d)
           IN  \A k \in 1..(Len(T) - 1) : T[k].ExitReason = "StopLoss"
    /\ \A i \in 1..Len(day_log) :
           LET T == TradesOf(dates[i])
           IN  (/\ day_log[i] # "running"
                /\ T # << >>
                /\ T[Len(T)].ExitReason \in {"TakeProfit", "Exit"})
               => day_log[i] = "NormalExit"

\* A date ended after a single TakeProfit trade although a re-entry was
\* allowed.
C3_Witness ==
    \E i \in 1..Len(day_log) :
        LET T == TradesOf(dates[i])
        IN  /\ config.max_reentries = 1
            /\ day_log[i] = "NormalExit"
            /\ Len(T) = 1
            /\ T[1].ExitReason = "TakeProfit"

\* C4: a failure on one date never aborts the run: when run_backtest has
\* returned every date of the list has been taken through the loop body, and
\* a date whose underlying price at entry time is unavailable has no trade.
C4_FailureIsolated ==
    /\ pc = "done" => \A i \in 1..Len(dates) : day_log[i] # "running"
    /\ \A i \in 1..Len(day_log) :
           day_log[i] = "NoUnderlying" => TradesOf(dates[i]) = << >>

\* The simulation raised on the first date and the second date recorded a
\* trade.
C4_Witness ==
    /\ pc = "done"
    /\ Len(dates) = 2
    /\ day_log[1] = "Error"
    /\ TradesOf(dates[1]) = << >>
    /\ Len(TradesOf(dates[2])) = 1

(***************************************************************************)
(* Properties of StraddleStrategy.run, checked under SpecRun.              *)
(***************************************************************************)

RunDone == run_out # NoRunOut
RunOk == run_out.error = ""

EntryTotal == run_out.ce_entry + run_out.pe_entry
RowTotal(i) == run_out.pnl_df[i].close_ce + run_out.pnl_df[i].close_pe

\* Row i of the returned minute series is the row on which StopLoss fired.
FiredStopLoss(i) == i = Len(run_out.pnl_df) /\ run_out.exit_reason = "StopLoss"

\* The price of a leg on row i is up by at least pct percent of its entry.
LegUp(price, entry, pct) == (price - entry) * 100 >= pct * entry
\* The price of a leg on row i is down by at least pct percent of its entry.
LegDown(price, entry, pct) == (entry - price) * 100 >= pct * entry

\* C5: in combined mode StopLoss fires on a row exactly when
\* (call + put - entry total) / entry total * 100 >= stop_loss_pct; with an
\* entry total of 200 and a stop-loss of 25, totals 250 and 251 fire and 249
\* does not.
C5_CombinedStopLoss ==
    (RunOk /\ ~config.per_leg) =>
        \A i \in 1..Len(run_out.pnl_df) :
            /\ FiredStopLoss(i)
                  <=> (RowTotal(i) - EntryTotal) * 100 >= config.stop_loss_pct * EntryTotal
            /\ (EntryTotal = 200 /\ config.stop_loss_pct = 25) =>
                  /\ RowTotal(i) \in {250, 251} => FiredStopLoss(i)
                  /\ RowTotal(i) = 249 => ~FiredStopLoss(i)

\* Combined mode, entry total 200: the second row has a total of exactly 250
\* and StopLoss fired on it.
C5_Witness ==
    /\ RunOk
    /\ ~config.per_leg
    /\ EntryTotal = 200
    /\ Len(run_out.pnl_df) = 2
    /\ RowTotal(2) = 250
    /\ run_out.exit_reason = "StopLoss"

\* C6: in per-leg mode StopLoss fires on a row exactly when at least one leg
\* is up by stop_loss_pct percent or more of its own entry price, whatever
\* the other leg does; with entries 100/100 and a stop-loss of 25 a call at
\* 126 fires and a call at 124 with the put at 100 does not.
C6_PerLegStopLoss ==
    (RunOk /\ config.per_leg) =>
        \A i \in 1..Len(run_out.pnl_df) :
            LET row == run_out.pnl_df[i]
            IN  /\ FiredStopLoss(i)
                      <=> \/ LegUp(row.close_ce, run_out.ce_entry, config.stop_loss_pct)
                          \/ LegUp(row.close_pe, run_out.pe_entry, config.stop_loss_pct)
                /\ (/\ run_out.ce_entry = 100
                    /\ run_out.pe_entry = 100
                    /\ config.stop_loss_pct = 25) =>
                      /\ row.close_ce = 126 => FiredStopLoss(i)
                      /\ (row.close_ce = 124 /\ row.close_pe = 100) => ~FiredStopLoss(i)

\* Per-leg mode, entries 100/100: StopLoss fired on a row whose call is at
\* 126 while the put fell to 75.
C6_Witness ==
    /\ RunOk
    /\ config.per_leg
    /\ run_out.ce_entry = 100
    /\ run_out.pe_entry = 100
    /\ Len(run_out.pnl_df) = 2
    /\ run_out.pnl_df[2].close_ce = 126
    /\ run_out.pnl_df[2].close_pe = 75
    /\ run_out.exit_reason = "StopLoss"

\* The stop-loss condition of the configured mode holds on row i.
StopLossHolds(i) ==
    LET row == run_out.pnl_df[i]
    IN  IF config.per_leg
        THEN \/ LegUp(row.close_ce, run_out.ce_entry, config.stop_loss_pct)
             \/ LegUp(row.close_pe, run_out.pe_entry, config.stop_loss_pct)
        ELSE LegUp(RowTotal(i), EntryTotal, config.stop_loss_pct)

\* The take-profit condition of the configured mode holds on row i.
TakeProfitHolds(i) ==
    LET row == run_out.pnl_df[i]
    IN  /\ config.target_profit_pct # None
        /\ IF config.per_leg
           THEN \/ LegDown(row.close_ce, run_out.ce_entry, config.target_profit_pct)
                \/ LegDown(row.close_pe, run_out.pe_entry, config.target_profit_pct)
           ELSE LegDown(RowTotal(i), EntryTotal, config.target_profit_pct)

\* C7: a row on which both a stop-loss condition and a take-profit condition
\* hold ends the trade with reason StopLoss, never TakeProfit.
C7_StopLossWins ==
    RunOk =>
        \A i \in 1..Len(run_out.pnl_df) :
            (StopLossHolds(i) /\ TakeProfitHolds(i)) =>
                /\ i = Len(run_out.pnl_df)
                /\ run_out.exit_reason = "StopLoss"

\* Per-leg mode with a take-profit configured: on the exit row both
\* conditions hold (one leg up, the other down) and the reason is StopLoss.
C7_Witness ==
    /\ RunOk
    /\ config.per_leg
    /\ StopLossHolds(Len(run_out.pnl_df))
    /\ TakeProfitHolds(Len(run_out.pnl_df))
    /\ run_out.exit_reason = "StopLoss"

\* The timestamps of a frame and the close of the bar at a timestamp.
Stamps(df) == { df[i].datetime : i \in 1..Len(df) }
CloseAt(df, t) == (CHOOSE b \in { df[i] : i \in 1..Len(df) } : b.datetime = t).close

\* The window of the trade, derived from the inputs as run derives it.
WindowLo == Stamp(DateOf(call_df[1].datetime), config.entry_time)
WindowHi == Stamp(DateOf(call_df[1].datetime), config.exit_time)

\* The timestamps of the joined rows and those on which an exit event fires.
JoinedStamps ==
    { t \in Stamps(call_df) \cap Stamps(put_df) : WindowLo <= t /\ t <= WindowHi }
EventAt(t) ==
    ExitCheck(config, CloseAt(call_df, t), CloseAt(put_df, t),
              run_out.ce_entry, run_out.pe_entry)
FiringStamps == { t \in JoinedStamps : EventAt(t) # "NoEvent" }
MinOf(S) == CHOOSE x \in S : \A y \in S : x <= y
MaxOf(S) == CHOOSE x \in S : \A y \in S : x >= y
ExitStamp == IF FiringStamps # {} THEN MinOf(FiringStamps) ELSE MaxOf(JoinedStamps)

\* C8: the trade exits at the first joined row on which an event fires: the
\* returned series is the joined rows up to and including that row, in
\* timestamp order, the exit time and exit premiums are that row's, and the
\* reason is that row's event; when no row fires the reason is Exit and the
\* exit time and premiums are those of the last joined row.
C8_ExitAtFirstFiringRow ==
    RunOk =>
        LET df == run_out.pnl_df
        IN  /\ run_out.exit_time = ExitStamp
            /\ run_out.ce_exit = CloseAt(call_df, ExitStamp)
            /\ run_out.pe_exit = CloseAt(put_df, ExitStamp)
            /\ run_out.exit_reason =
                   IF FiringStamps = {} THEN "Exit" ELSE EventAt(ExitStamp)
            /\ { df[i].datetime : i \in 1..Len(df) } = { t \in JoinedStamps : t <= ExitStamp }
            /\ \A i \in 1..(Len(df) - 1) : df[i].datetime < df[i + 1].datetime
            /\ \A i \in 1..Len(df) :
                   /\ df[i].close_ce = CloseAt(call_df, df[i].datetime)
                   /\ df[i].close_pe = CloseAt(put_df, df[i].datetime)

\* An event fired on a row that is not the last joined row, after a row on
\* which nothing fired.
C8_Witness ==
    /\ RunOk
    /\ FiringStamps # {}
    /\ \E t \in JoinedStamps : t > run_out.exit_time
    /\ \E t \in JoinedStamps : t < run_out.exit_time
    /\ Len(run_out.pnl_df) = 2

\* No bar of the frame is at or after t.
NoBarFrom(df, t) == \A i \in 1..Len(df) : df[i].datetime < t

\* C9: run fails with an error, and returns no trade data, when either leg
\* has no bar at or after the entry time or when the two legs have no common
\* timestamp inside [entry time, exit time].
C9_DataGapFails ==
    RunDone =>
        ((\/ call_df = << >>
          \/ put_df = << >>
          \/ NoBarFrom(call_df, WindowLo)
          \/ NoBarFrom(put_df, WindowLo)
          \/ JoinedStamps = {})
         => /\ run_out.error # ""
            /\ run_out.pnl_df = << >>
            /\ run_out.exit_reason = "None")

\* Both legs have a bar inside the window but no timestamp in common, and
\* run failed.
C9_Witness ==
    /\ RunDone
    /\ call_df # << >>
    /\ put_df # << >>
    /\ \E t \in Stamps(call_df) : WindowLo <= t /\ t <= WindowHi
    /\ \E t \in Stamps(put_df) : WindowLo <= t /\ t <= WindowHi
    /\ JoinedStamps = {}
    /\ run_out.error = "ValueError: no overlapping minute bars"

\* The per-unit payoff of the short straddle.
PremiumDifference ==
    (run_out.ce_entry + run_out.pe_entry) - (run_out.ce_exit + run_out.pe_exit)

\* C10, as stated: the gross P&L equals (call entry + put entry) - (call exit
\* + put exit) for every lot size and lot multiplier.
C10_GrossPnlPerUnit == RunOk => run_out.gross_pnl = PremiumDifference

\* C10, amended: the gross P&L equals (call entry + put entry) - (call exit +
\* put exit) multiplied by lot_size and by lot_multiplier.
C10_GrossPnlScaled ==
    RunOk => run_out.gross_pnl = PremiumDifference * config.lot_size * config.lot_multiplier

\* A trade with lot size 2 and lot multiplier 3 and a non-zero payoff: the
\* gross P&L is six times the premium difference.
C10_Witness ==
    /\ RunOk
    /\ config.lot_size = 2
    /\ config.lot_multiplier = 3
    /\ PremiumDifference # 0
    /\ run_out.gross_pnl = 6 * PremiumDifference

\* C11: the net P&L is the premium difference less 4 * slippage_points per
\* unit, scaled by lot_size * lot_multiplier, less the commission
\* 2 * commission_per_lot * lot_multiplier subtracted after the scaling; with
\* non-negative slippage, commission, lot size and multiplier it is at most
\* the scaled gross P&L.
C11_NetPnlFormula ==
    RunOk =>
        /\ run_out.net_pnl =
               (PremiumDifference - 4 * config.slippage_points)
                   * config.lot_size * config.lot_multiplier
               - 2 * config.commission_per_lot * config.lot_multiplier
        /\ (/\ config.slippage_points >= 0
            /\ config.commission_per_lot >= 0
            /\ config.lot_size >= 0
            /\ config.lot_multiplier >= 0) => run_out.net_pnl <= run_out.gross_pnl

\* A trade with slippage 1, commission 20 and lot size 75: the net P&L is
\* 4 * 75 + 2 * 20 below the gross P&L.
C11_Witness ==
    /\ RunOk
    /\ config.slippage_points = 1
    /\ config.commission_per_lot = 20
    /\ config.lot_size = 75
    /\ PremiumDifference # 0
    /\ run_out.net_pnl = run_out.gross_pnl - 340

(***************************************************************************)
(* Properties of calculate_atm_strike, checked under SpecStrike.           *)
(***************************************************************************)

\* The strike interval of the instrument class, as the claim lists it.
IntervalOf(index) ==
    IF index = "BANKNIFTY" THEN 100 ELSE IF index = "MIDCPNIFTY" THEN 25 ELSE 50

\* C13: for a positive underlying price the strike is a multiple of the
\* class's interval at distance at most interval/2 from the price, above the
\* price when the remainder is >= interval/2 and at or below it otherwise;
\* on NIFTY 24980 gives 25000, 24960 gives 24950 and 24975 gives 25000.
C13_NearestStrike ==
    strike_out # None =>
        LET interval == IntervalOf(config.index)
            price == current_underlying
            below == CHOOSE k \in (price - interval + 1)..price : k % interval = 0
        IN  /\ strike_out % interval = 0
            /\ 2 * (strike_out - price) <= interval
            /\ 2 * (price - strike_out) <= interval
            /\ strike_out = IF 2 * (price - below) >= interval
                            THEN below + interval ELSE below
            /\ config.index = "NIFTY" =>
                   /\ price = 24980 => strike_out = 25000
                   /\ price = 24960 => strike_out = 24950
                   /\ price = 24975 => strike_out = 25000

\* The exact half on NIFTY: 24975 was rounded up to 25000.
C13_Witness ==
    /\ config.index = "NIFTY"
    /\ current_underlying = 24975
    /\ strike_out = 25000

(***************************************************************************)
(* Properties of summary, checked under SpecSummary.                       *)
(***************************************************************************)

SummaryOk == summary_out.status = "ok"

\* The net P&L of the trades of the log at the positions in S.
RECURSIVE NetOver(_)
NetOver(S) ==
    IF S = {} THEN 0
    ELSE LET i == CHOOSE i \in S : TRUE
         IN  results[i].net_pnl + NetOver(S \ {i})

LogDates == { results[i].date : i \in 1..Len(results) }
DailyNets == [i \in 1..Len(summary_out.daily) |-> summary_out.daily[i].net_PnL]
DailyCums == [i \in 1..Len(summary_out.daily) |-> summary_out.daily[i].CumulativePnL]

\* C14: summary produces one daily row per distinct date of the log, in
\* ascending date order, whose net P&L is the sum of the net P&L of that
\* date's trades; the daily cumulative P&L is the sum over the dates up to
\* that row's date, and total_pnl is the sum over all trades.  An empty log
\* gives no daily row and no metrics.
C14_DailySums ==
    /\ summary_out.status = "empty" => results = << >>
    /\ SummaryOk =>
        LET daily == summary_out.daily
        IN  /\ results # << >>
            /\ { daily[i].date : i \in 1..Len(daily) } = LogDates
            /\ \A i \in 1..(Len(daily) - 1) : daily[i].date < daily[i + 1].date
            /\ \A i \in 1..Len(daily) :
                   /\ daily[i].net_PnL =
                          NetOver({ k \in 1..Len(results) : results[k].date = daily[i].date })
                   /\ daily[i].CumulativePnL =
                          NetOver({ k \in 1..Len(results) : results[k].date <= daily[i].date })
            /\ summary_out.total_pnl = NetOver(1..Len(results))

\* A log of three trades whose dates are not in ascending order, two of them
\* on the same date with a non-zero sum: two daily rows.
C14_Witness ==
    /\ SummaryOk
    /\ Len(results) = 3
    /\ results[1].date > results[2].date
    /\ results[3].date = results[1].date
    /\ Len(summary_out.daily) = 2
    /\ summary_out.daily[2].net_PnL = 300
    /\ summary_out.daily[1].net_PnL = -50
    /\ summary_out.total_pnl = 250

MaxOfSet(S) == CHOOSE x \in S : \A y \in S : x >= y

\* C15: max_drawdown is the maximum over days of (the largest cumulative
\* daily P&L up to and including that day - the cumulative P&L of that day);
\* it is never negative; for daily P&L [100, -50, 200] it is 50, the total is
\* 250 and the win rate is 2 days of 3.
C15_MaxDrawdown ==
    SummaryOk =>
        LET n == Len(summary_out.daily)
            peak(i) == MaxOfSet({ DailyCums[j] : j \in 1..i })
        IN  /\ summary_out.max_drawdown =
                   MaxOfSet({ peak(i) - DailyCums[i] : i \in 1..n })
            /\ summary_out.max_drawdown >= 0
            /\ DailyNets = <<100, -50, 200>> =>
                   /\ summary_out.max_drawdown = 50
                   /\ summary_out.total_pnl = 250
                   /\ summary_out.win_rate = <<200, 3>>

\* The daily P&L series is [100, -50, 200] and the drawdown is 50.
C15_Witness ==
    /\ SummaryOk
    /\ DailyNets = <<100, -50, 200>>
    /\ summary_out.max_drawdown = 50

\* C16, as stated: the Sharpe-like ratio is always a finite number, the mean
\* over the standard deviation of the daily P&L when that deviation is not
\* zero and 0 otherwise, also when all days have the same P&L and when the
\* log covers a single day.
C16_SharpeFinite ==
    SummaryOk =>
        LET n == Len(summary_out.daily)
            s == summary_out.sharpe_ratio
            spread == \E i, j \in 1..n : DailyNets[i] # DailyNets[j]
        IN  /\ s.kind \in {"ratio", "zero"}
            /\ spread => /\ s.kind = "ratio"
                         /\ s.mean_num = summary_out.total_pnl
                         /\ s.mean_den = n
            /\ ~spread => s.kind = "zero"

(***************************************************************************)
(* A session of one engine: run_backtest called any number of times (as    *)
(* the schedule loop of main.py does, once per date and expiry) with       *)
(* summary called between the calls.  No code validates a StraddleConfig   *)
(* (a plain dataclass, copied field by field by StraddleStrategy.__init__),*)
(* so a configuration with a negative lot size is one the engine can hold. *)
(* The configurations of a session exit at the entry minute, which keeps   *)
(* the number of different trades small.                                   *)
(***************************************************************************)
SessionConfigs ==
    { [BaseConfig EXCEPT !.max_reentries = mr, !.lot_size = ls, !.exit_time = 1] :
        mr \in 0..MaxReentries, ls \in {75, -75} }

InitSession ==
    /\ config \in SessionConfigs
    /\ InitEngine
    /\ call_df = << >>
    /\ put_df = << >>
    /\ ce_feed = << >>
    /\ pe_feed = << >>
    /\ run_out = NoRunOut
    /\ strike_out = None
    /\ summary_out = NoSummary

\* Lines 147-149: run_backtest returns to its caller; its arguments and
\* locals are gone, the engine keeps results and minute_pnl_records.
Return ==
    /\ pc = "done"
    /\ pc' = "idle"
    /\ dates' = << >>
    /\ expiry' = 0
    /\ date_idx' = 0
    /\ daily_pnl' = 0
    /\ current_time' = 0
    /\ current_underlying' = 0
    /\ reentry' = 0
    /\ underlying_df' = << >>
    /\ day_log' = << >>
    /\ UNCHANGED <<config, results, minute_pnl_records,
                   call_df, put_df, ce_feed, pe_feed, run_out, strike_out, summary_out>>

NextSession ==
    \/ \E ds \in Schedules, exp \in Expiries \cup ThinExpiries : RunBacktest(ds, exp)
    \/ DateStart
    \/ Attempt
    \/ Return
    \/ Summary

SpecSession == InitSession /\ [][NextSession]_vars

(***************************************************************************)
(* Properties of the engine's records.                                     *)
(***************************************************************************)

\* C17, as stated: when run_backtest has returned, every date that was
\* skipped or failed has a record in the engine's results that marks it as
\* such, that is a record of that date which is not a completed trade.
C17_FailureObservable ==
    pc = "done" =>
        \A i \in 1..Len(dates) :
            day_log[i] \in DataFailures =>
                \E k \in 1..Len(results) :
                    /\ results[k].date = dates[i]
                    /\ results[k].ExitReason \notin {"StopLoss", "TakeProfit", "Exit"}

\* C18, as stated: with a configuration that is invalid at startup (a
\* negative lot size) the backtest fails before any simulation begins, so no
\* trade is ever recorded with it.
C18_NoTradeWithInvalidConfig == config.lot_size < 0 => results = << >>

EntryOf(df) == CloseAt(df, MinOf({ t \in Stamps(df) : t >= WindowLo }))

\* run found an entry bar on both legs.
EntriesFound ==
    /\ call_df # << >>
    /\ put_df # << >>
    /\ ~NoBarFrom(call_df, WindowLo)
    /\ ~NoBarFrom(put_df, WindowLo)

\* C19, as stated: when an entry premium used as a percentage denominator is
\* not positive (the entry total in combined mode, either leg's entry in
\* per-leg mode) the attempt fails with an error instead of returning an
\* exit decision.
C19_NonPositivePremiumFails ==
    (/\ RunDone
     /\ EntriesFound
     /\ IF config.per_leg
        THEN EntryOf(call_df) <= 0 \/ EntryOf(put_df) <= 0
        ELSE EntryOf(call_df) + EntryOf(put_df) <= 0)
    => run_out.error # ""

\* The zero part of C19: a denominator that is exactly zero makes run fail.
ZeroPremiumFails ==
    (/\ RunDone
     /\ EntriesFound
     /\ IF config.per_leg
        THEN EntryOf(call_df) = 0 \/ EntryOf(put_df) = 0
        ELSE EntryOf(call_df) + EntryOf(put_df) = 0)
    => run_out.error # ""

(***************************************************************************)
(* Properties of the re-entry loop.                                        *)
(***************************************************************************)

\* The bars of df at or after t, and the earliest of them.
BarsFrom(df, t) == { i \in 1..Len(df) : df[i].datetime >= t }
FirstBarFrom(df, t) ==
    df[CHOOSE i \in BarsFrom(df, t) :
           \A j \in BarsFrom(df, t) : df[i].datetime <= df[j].datetime]

\* A step of run_backtest that records a trade, and the trade it records.
TradeRecorded == Len(results') = Len(results) + 1
NewTrade == results'[Len(results')]

\* C21: every recorded trade has the loop's current entry time, underlying
\* price and re-entry index, and a strike that is the multiple of the strike
\* interval nearest to that underlying price; and when the trade exits with
\* StopLoss at a re-entry index below max_reentries and the fetched
\* underlying frame has a bar at or after the exit timestamp, the loop goes
\* on to a next attempt with entry time = exit time + reentry_delay_minutes,
\* underlying price = close of the first such bar, and re-entry index + 1.
C21_ReentryParameters ==
    [][TradeRecorded =>
        /\ NewTrade.reentry = reentry
        /\ NewTrade.EntryTime = current_time
        /\ NewTrade.underlying_price = current_underlying
        /\ NewTrade.strike % IntervalOf(config.index) = 0
        /\ 2 * (NewTrade.strike - current_underlying) <= IntervalOf(config.index)
        /\ 2 * (current_underlying - NewTrade.strike) < IntervalOf(config.index)
        /\ (/\ NewTrade.ExitReason = "StopLoss"
            /\ reentry < config.max_reentries
            /\ BarsFrom(underlying_df', NewTrade.ExitTime) # {})
           => /\ pc' = "attempt"
              /\ reentry' = reentry + 1
              /\ current_time' = NewTrade.ExitTime + config.reentry_delay_minutes
              /\ current_underlying' =
                     FirstBarFrom(underlying_df', NewTrade.ExitTime).close
    ]_vars

\* A date has a trade stopped at minute 2 and a re-entry one minute later, at
\* the close of the first of the two fetched underlying bars (24960, strike
\* 24950), not of the last (24920).
C21_Witness ==
    \E d \in Dates :
        LET T == TradesOf(d)
        IN  /\ Len(T) = 2
            /\ config.reentry_delay_minutes = 1
            /\ T[1].ExitReason = "StopLoss"
            /\ T[1].ExitTime = Stamp(d, 2)
            /\ underlying_df = <<UnderlyingBar(d, 2), UnderlyingBar(d, 3)>>
            /\ T[2].reentry = 1
            /\ T[2].EntryTime = Stamp(d, 3)
            /\ T[2].underlying_price = 24960
            /\ T[2].strike = 24950
            /\ T[1].strike = 25000

\* The trades of date d in a log.
TradesIn(log, d) == SelectSeq(log, LAMBDA t : t.date = d)

\* The two ways the underlying can be unavailable after a stop-loss.
UnderlyingGaps == {"NoUnderlyingAfterSL", "NoUnderlyingRowAfterSL"}

\* C22: when a trade exits with StopLoss below the re-entry limit and the
\* fetched underlying frame is empty or has no bar at or after the exit
\* timestamp, the date ends there and the run goes on to the next date of the
\* list (or returns after the last one); from then on no trade is added to
\* the date and its recorded trades stay as they are.
C22_ReentryDataGap ==
    [][/\ (/\ TradeRecorded
           /\ NewTrade.ExitReason = "StopLoss"
           /\ reentry < config.max_reentries
           /\ BarsFrom(underlying_df', NewTrade.ExitTime) = {})
          => /\ day_log'[date_idx] \in UnderlyingGaps
             /\ IF date_idx < Len(dates)
                THEN pc' = "date" /\ date_idx' = date_idx + 1
                ELSE pc' = "done"
       /\ \A i \in 1..Len(day_log) :
              day_log[i] \in UnderlyingGaps
              => /\ day_log' # << >> => day_log'[i] = day_log[i]
                 /\ TradesIn(results', dates[i]) = TradesIn(results, dates[i])
    ]_vars

\* The first date stopped with no underlying frame after its stop-loss, the
\* second with no underlying bar after it, each keeps its one trade, and the
\* run has returned.
C22_Witness ==
    /\ pc = "done"
    /\ Len(dates) = 2
    /\ config.max_reentries = 1
    /\ day_log[1] = "NoUnderlyingAfterSL"
    /\ day_log[2] = "NoUnderlyingRowAfterSL"
    /\ Len(TradesOf(dates[1])) = 1
    /\ Len(TradesOf(dates[2])) = 1
    /\ TradesOf(dates[1])[1].ExitReason = "StopLoss"

\* The net P&L of all the trades recorded for date d.
DateNet(d) == SumNet(TradesOf(d), Len(TradesOf(d)))

\* C23: the ledger tested against the loss cap is the net P&L of the trades
\* of the date being simulated and of no other date: it is 0 when the date's
\* first attempt is made, whatever the earlier dates lost or won; a trade is
\* recorded only while its own date's sum is above -max_loss_per_day, and a
\* date is stopped by the cap only when its own sum is at or below it.
C23_LedgerPerDate ==
    /\ pc = "attempt" => daily_pnl = DateNet(dates[date_idx])
    /\ (pc = "attempt" /\ reentry = 0) => daily_pnl = 0
    /\ \A i \in 1..Len(day_log) :
           LET T == TradesOf(dates[i])
           IN  /\ \A k \in 1..Len(T) : SumNet(T, k - 1) > -config.max_loss_per_day
               /\ day_log[i] = "MaxLoss" => DateNet(dates[i]) <= -config.max_loss_per_day

\* The first date was stopped by the cap after one losing trade, and the
\* second date, attempted with the log's total already at the cap, recorded
\* two trades and lost less than the cap.
C23_Witness ==
    /\ pc = "done"
    /\ Len(dates) = 2
    /\ day_log[1] = "MaxLoss"
    /\ Len(TradesOf(dates[1])) = 1
    /\ DateNet(dates[1]) = -config.max_loss_per_day
    /\ Len(TradesOf(dates[2])) = 2
    /\ DateNet(dates[2]) > -config.max_loss_per_day

(***************************************************************************)
(* Further properties of StraddleStrategy.run, checked under SpecRun.      *)
(***************************************************************************)

\* C24: with target_profit_pct None a run that returns a trade never has
\* exit reason TakeProfit, in per-leg and in combined mode: the reason is
\* StopLoss or Exit (the end of the window), and a run whose premiums only
\* fell ends with Exit on the last row of the window.
C24_NoTakeProfitWithoutTarget ==
    (RunDone /\ RunOk /\ config.target_profit_pct = None)
    => /\ run_out.exit_reason \in {"StopLoss", "Exit"}
       /\ (\A i \in 1..Len(run_out.pnl_df) : ~StopLossHolds(i))
          => run_out.exit_reason = "Exit"

\* Per-leg mode without a target: both legs fell by a quarter of their entry
\* price and the trade ran to the end of the window.
C24_Witness ==
    /\ RunDone /\ RunOk
    /\ config.target_profit_pct = None
    /\ config.per_leg
    /\ run_out.ce_entry = 100 /\ run_out.pe_entry = 100
    /\ run_out.ce_exit = 75 /\ run_out.pe_exit = 75
    /\ run_out.exit_reason = "Exit"

\* The timestamps of the rows of the returned minute series.
RowStamps == { run_out.pnl_df[i].datetime : i \in 1..Len(run_out.pnl_df) }

\* C25: every row of the minute series of a trade has a timestamp that both
\* the call frame and the put frame have and that lies in [entry time, exit
\* time], carries the two closes of that minute, and has minute P&L =
\* (call entry + put entry) - (call close + put close); the rows are in
\* increasing time and are all the common minutes of the window up to the
\* row the trade exits on.
C25_MinuteSeriesRows ==
    (RunDone /\ RunOk) =>
        /\ \A i \in 1..Len(run_out.pnl_df) :
               LET row == run_out.pnl_df[i]
               IN  /\ row.datetime \in Stamps(call_df) \cap Stamps(put_df)
                   /\ WindowLo <= row.datetime /\ row.datetime <= WindowHi
                   /\ row.close_ce = CloseAt(call_df, row.datetime)
                   /\ row.close_pe = CloseAt(put_df, row.datetime)
                   /\ row.MinutePnL =
                          (run_out.ce_entry + run_out.pe_entry)
                              - (row.close_ce + row.close_pe)
                   /\ i > 1 => run_out.pnl_df[i - 1].datetime < row.datetime
        /\ RowStamps = { t \in JoinedStamps : t <= run_out.exit_time }

\* The call frame has minute 2, the put frame does not, the put frame has a
\* bar after the window: the series has the two rows of minutes 1 and 3, the
\* second with a minute P&L of 1.
C25_Witness ==
    /\ RunDone /\ RunOk
    /\ Stamp(1, 2) \in Stamps(call_df) \ Stamps(put_df)
    /\ Stamp(1, 4) \in Stamps(put_df)
    /\ Len(run_out.pnl_df) = 2
    /\ run_out.pnl_df[1].datetime = Stamp(1, 1)
    /\ run_out.pnl_df[2].datetime = Stamp(1, 3)
    /\ run_out.pnl_df[2].MinutePnL = 1

(***************************************************************************)
(* Frame and order properties of run_backtest, checked under Spec.         *)
(***************************************************************************)

\* C26: no step of run_backtest (the call, the head of a date, an attempt
\* with the strategy's run inside it, a re-entry, the end of a date) changes
\* a field of the configuration, and the first attempt of every date is made
\* at the configured entry time.
C26_ConfigNeverMutated ==
    [][/\ config' = config
       /\ (TradeRecorded /\ NewTrade.reentry = 0)
          => NewTrade.EntryTime = Stamp(NewTrade.date, config.entry_time)
    ]_vars

\* A run with a re-entry delay of 0 has returned after a stopped trade and a
\* re-entry on its date.
C26_Witness ==
    /\ pc = "done"
    /\ config.reentry_delay_minutes = 0
    /\ config.max_reentries = 1
    /\ Len(results) = 2
    /\ results[2].reentry = 1
    /\ results[2].EntryTime = results[1].ExitTime

\* The position in the list of dates of the date d.
PositionOf(d) == CHOOSE i \in 1..Len(dates) : dates[i] = d

\* C27: during and after one call of run_backtest the trade log follows the
\* list of dates: every trade belongs to a date the loop has reached, a trade
\* of a date later in the list never precedes a trade of an earlier one, and
\* the re-entry indices of the trades of a date are 0, 1, 2, ... in the order
\* they were appended.
C27_LogOrdered ==
    /\ \A k \in 1..Len(results) :
           \E i \in 1..date_idx : dates[i] = results[k].date
    /\ \A k \in 1..Len(results) : \A l \in (k + 1)..Len(results) :
           PositionOf(results[k].date) <= PositionOf(results[l].date)
    /\ \A d \in Dates :
           \A k \in 1..Len(TradesOf(d)) : TradesOf(d)[k].reentry = k - 1

\* Both dates of the list recorded a stopped trade and a re-entry: the log
\* is date 1 with indices 0, 1 and then date 2 with indices 0, 1.
C27_Witness ==
    /\ pc = "done"
    /\ Len(results) = 4
    /\ [k \in 1..4 |-> <<results[k].date, results[k].reentry>>]
           = << <<dates[1], 0>>, <<dates[1], 1>>, <<dates[2], 0>>, <<dates[2], 1>> >>

(***************************************************************************)
(* Properties of summary between runs, checked under SpecSession.          *)
(***************************************************************************)

C29_Terminates ==
    /\ [](pc = "attempt"
          => /\ reentry <= config.max_reentries
             /\ reentry = Len(TradesOf(dates[date_idx])))
    /\ [](pc = "done" => \A i \in 1..Len(dates) : day_log[i] # "running")
    /\ (pc \in {"date", "attempt"}) ~> (pc = "done")

\* The run has ended after a date with a stopped trade and a re-entry that
\* ran to the end of the window, and a date on which the strategy raised.
C29_Witness ==
    /\ pc = "done"
    /\ Len(dates) = 2
    /\ day_log[1] = "NormalExit"
    /\ Len(TradesOf(dates[1])) = 2
    /\ TradesOf(dates[1])[1].ExitReason = "StopLoss"
    /\ day_log[2] = "Error"

(***************************************************************************)
(* The minute-series records, checked under SpecSession.                   *)
(***************************************************************************)

\* The series get_intraday_pnl returns for the trade t is the one t produced:
\* it exists and its last row has t's exit premiums and exit time.
SeriesIsOf(t) ==
    LET s == get_intraday_pnl(minute_pnl_records, t.date, t.reentry)
    IN  /\ s # << >>
        /\ s[Len(s)].close_ce = t.ce_exit
        /\ s[Len(s)].close_pe = t.pe_exit
        /\ s[Len(s)].datetime = t.ExitTime

\* C30: after any sequence of run_backtest calls every trade of the log has
\* its own minute series retrievable under its (date, re-entry index), also
\* when the same date was simulated more than once.
C30_SeriesOfEveryTrade ==
    \A k \in 1..Len(results) : SeriesIsOf(results[k])

\* What the records do hold: for every (date, re-entry index) of the log, the
\* series of the last trade recorded with it.
SeriesOfLatestTrade ==
    \A k \in 1..Len(results) :
        (\A l \in (k + 1)..Len(results) :
             ~(results[l].date = results[k].date
               /\ results[l].reentry = results[k].reentry))
        => SeriesIsOf(results[k])

(***************************************************************************)
(* Properties of the re-entry attempts of a replayed day, checked under     *)
(* SpecReplay.                                                              *)
(***************************************************************************)
\* The frame get_options_data returned for a leg of the trade t.
Fetched(t, right) == CHOOSE f \in EngineFrames(t.date, t.expiry, right) : TRUE

SeriesOf(t) == get_intraday_pnl(minute_pnl_records, t.date, t.reentry)

ReentryTrades == { k \in 1..Len(results) : results[k].reentry >= 1 }

\* C31: on a re-entry attempt the entry premiums are the closes of the first
\* bar of each leg at or after the re-entry time (previous exit time plus the
\* delay, the trade's EntryTime), and no row of the attempt's minute series is
\* earlier than the re-entry time.
C31_ReentryPremiums ==
    \A k \in ReentryTrades :
        LET t == results[k]
        IN  /\ t.ce_entry = FirstBarFrom(Fetched(t, "call"), t.EntryTime).close
            /\ t.pe_entry = FirstBarFrom(Fetched(t, "put"), t.EntryTime).close
            /\ \A i \in 1..Len(SeriesOf(t)) : SeriesOf(t)[i].datetime >= t.EntryTime

\* What does hold of the premiums: they are the closes of the first bars at
\* or after the re-entry time when the call leg still has a bar on the
\* trade's date from the re-entry time on ...
ReentryPremiumsSameDay ==
    \A k \in ReentryTrades :
        LET t == results[k]
        IN  DateOf(FirstBarFrom(Fetched(t, "call"), t.EntryTime).datetime) = t.date
            => /\ t.ce_entry = FirstBarFrom(Fetched(t, "call"), t.EntryTime).close
               /\ t.pe_entry = FirstBarFrom(Fetched(t, "put"), t.EntryTime).close

\* ... and of the series: no row is earlier than the re-entry time.
ReentrySeriesFromReentryTime ==
    \A k \in ReentryTrades :
        \A i \in 1..Len(SeriesOf(results[k])) :
            SeriesOf(results[k])[i].datetime >= results[k].EntryTime

\* A re-entry trade whose call premium is not the close of the first call bar
\* at or after the re-entry time.
ReentryPremiumOffFirstBar ==
    \E k \in ReentryTrades :
        results[k].ce_entry
            # FirstBarFrom(Fetched(results[k], "call"), results[k].EntryTime).close

\* A re-entry trade entered on the trade's own date.
ReentrySameDay ==
    \E k \in ReentryTrades :
        DateOf(FirstBarFrom(Fetched(results[k], "call"),
                            results[k].EntryTime).datetime) = results[k].date

\* C32: for every recorded trade, EntryTime <= ExitTime <= the configured exit
\* time on the trade's own date, and every row of its minute series is on that
\* date, also when the fetched bars extend into the following day and the
\* re-entry time is after the last bar of the trade's date.
C32_TradeWithinItsDay ==
    \A k \in 1..Len(results) :
        LET t == results[k]
        IN  /\ t.EntryTime <= t.ExitTime
            /\ t.ExitTime <= Stamp(t.date, config.exit_time)
            /\ \A i \in 1..Len(SeriesOf(t)) : DateOf(SeriesOf(t)[i].datetime) = t.date

\* What does hold: the exit is never before the entry, and the trade stays
\* within its date when the call leg has a bar on that date from the entry
\* time on.
ExitNotBeforeEntry ==
    \A k \in 1..Len(results) : results[k].EntryTime <= results[k].ExitTime

TradeWithinItsDaySameDay ==
    \A k \in 1..Len(results) :
        LET t == results[k]
        IN  DateOf(FirstBarFrom(Fetched(t, "call"), t.EntryTime).datetime) = t.date
            => /\ t.ExitTime <= Stamp(t.date, config.exit_time)
               /\ \A i \in 1..Len(SeriesOf(t)) : DateOf(SeriesOf(t)[i].datetime) = t.date

\* A re-entry trade recorded for a date and exited on the following one.
ReentryExitsNextDay ==
    \E k \in ReentryTrades : DateOf(results[k].ExitTime) = results[k].date + 1

(***************************************************************************)
(* The entry row of a trade, checked under SpecRun.                         *)
(***************************************************************************)
\* An exit event fired on the first row of the returned series.
EventOnEntryRow ==
    Len(run_out.pnl_df) = 1 /\ run_out.exit_reason \in {"StopLoss", "TakeProfit"}

\* The first bars of the two legs at or after the entry time have the same
\* timestamp.
EntryBarsAligned ==
    FirstBarFrom(call_df, WindowLo).datetime = FirstBarFrom(put_df, WindowLo).datetime

\* C33: for every trade the entry premiums of both legs are the closes of the
\* first row of its minute series, so that row's minute P&L is 0 and (the
\* stop-loss and take-profit thresholds being positive) no exit event fires
\* on it, also when the legs' first bars at or after the entry time have
\* different timestamps.
C33_EntryRowIsNeutral ==
    RunOk => /\ run_out.ce_entry = run_out.pnl_df[1].close_ce
             /\ run_out.pe_entry = run_out.pnl_df[1].close_pe
             /\ run_out.pnl_df[1].MinutePnL = 0
             /\ ~EventOnEntryRow

\* What does hold: the same when the two first bars have the same timestamp.
EntryRowIsNeutralWhenAligned ==
    RunOk /\ EntryBarsAligned
        => /\ run_out.ce_entry = run_out.pnl_df[1].close_ce
           /\ run_out.pe_entry = run_out.pnl_df[1].close_pe
           /\ run_out.pnl_df[1].MinutePnL = 0
           /\ ~EventOnEntryRow

\* A trade whose legs' first bars differ in time and that is stopped out on
\* the first row of its series.
StoppedOnEntryRow ==
    RunOk /\ ~EntryBarsAligned /\ EventOnEntryRow /\ run_out.exit_reason = "StopLoss"

(***************************************************************************)
(* The initial attempt of a date, checked under SpecReplay.                 *)
(***************************************************************************)
\* Both legs have a bar on a common minute of the window of date d.
CommonMinute(d) ==
    \E t \in Stamps(CHOOSE f \in EngineFrames(d, expiry, "call") : TRUE)
              \cap Stamps(CHOOSE f \in EngineFrames(d, expiry, "put") : TRUE) :
        Stamp(d, config.entry_time) <= t /\ t <= Stamp(d, config.exit_time)

\* The loop is at the initial attempt of date d: the underlying price was
\* available, and both legs have bars with a common minute in the window.
InitialAttemptDue(d) ==
    /\ pc = "attempt"
    /\ reentry = 0
    /\ dates[date_idx] = d
    /\ config.max_reentries >= 0
    /\ CommonMinute(d)

InitialTradeRecorded(d) ==
    \E k \in 1..Len(results) : results[k].date = d /\ results[k].reentry = 0

CappedBeforeFirstAttempt ==
    /\ pc = "done"
    /\ config.max_loss_per_day = 0
    /\ CommonMinute(dates[1])
    /\ day_log[1] = "MaxLoss"
    /\ results = << >>

====
